---- MODULE Spec2Model ----
(***************************************************************************)
(* Model of src/pixel_art.py: the PixelArtEditor data model (frames, grid  *)
(* shape, current_index), the playback timer, the drag-gesture state and   *)
(* the .npy export / import handlers.                                      *)
(*                                                                         *)
(* A numpy array is a record [dtype, shape, data]: data is the flat,       *)
(* row-major (C order) buffer, shape the tuple of dimensions.  Every Qt    *)
(* slot runs to completion on the single GUI thread, so one handler is one *)
(* action.  An exception that escapes a slot is not caught anywhere in the *)
(* program: PyQt5 (5.5 and later) then calls qFatal() and the process is   *)
(* aborted; this is the variable alive.  Only load_frames catches.         *)
(***************************************************************************)
EXTENDS Integers, Sequences, FiniteSets, TLC

\* ------------------------------------------------------------- bounds
\* Largest number of frames the model lets add_frame / copy_frame build and
\* the largest frame count of an imported file.
MaxFrames == 3
\* Largest row / column count the model draws for the resize dialog and for
\* the shape of an imported file.
MaxRows == 2
MaxCols == 2
\* Number of cells of the table's main diagonal the model lets the pointer
\* reach.
MaxPress == 2

\* -------------------------------------------------- program constants
\* QInputDialog.getInt(..., min=1, max=64) of the resize dialog.
DialogMin == 1
DialogMax == 64
\* self.rows = 8 / self.cols = 8 of __init__.
InitRows == 8
InitCols == 8
\* dtype=np.uint8: values are kept modulo 2^8.
U8 == 256

Min(a, b) == IF a < b THEN a ELSE b
Max(a, b) == IF a > b THEN a ELSE b

\* ------------------------------------------------------ numpy arrays
RECURSIVE Prod(_)
Prod(shape) == IF shape = <<>> THEN 1 ELSE Head(shape) * Prod(Tail(shape))

ndim(a) == Len(a.shape)

\* np.zeros((h, w), dtype=np.uint8)
np_zeros(h, w) ==
  [dtype |-> "uint8", shape |-> <<h, w>>, data |-> [k \in 1..(h * w) |-> 0]]

\* arr[row, col] of a 2-D array raises IndexError outside the shape.
InShape(arr, row, col) ==
  /\ 0 <= row /\ row < arr.shape[1]
  /\ 0 <= col /\ col < arr.shape[2]

\* Position of arr[row, col] in the row-major buffer (1-based for TLA+).
Offset(arr, row, col) == row * arr.shape[2] + col + 1

GetItem(arr, row, col) == arr.data[Offset(arr, row, col)]

SetItem(arr, row, col, v) ==
  [arr EXCEPT !.data = [@ EXCEPT ![Offset(arr, row, col)] = v]]

\* data[np.newaxis, ...]: a leading axis of length 1 over the same buffer.
newaxis(a) == [a EXCEPT !.shape = <<1>> \o a.shape]

\* data[i].copy() of an array of rank >= 1 (i is 0-based).
Slice0(a, i) ==
  LET sz == Prod(Tail(a.shape))
  IN  [dtype |-> a.dtype, shape |-> Tail(a.shape),
       data |-> SubSeq(a.data, i * sz + 1, (i + 1) * sz)]

RECURSIVE ConcatData(_)
ConcatData(fs) ==
  IF fs = <<>> THEN <<>> ELSE Head(fs).data \o ConcatData(Tail(fs))

\* np.stack(frames, axis=0) raises ValueError for an empty list and for
\* arrays of different shapes.
StackRaises(fs) ==
  \/ fs = <<>>
  \/ \E i \in 1..Len(fs) : fs[i].shape # fs[1].shape

np_stack(fs) ==
  [dtype |-> fs[1].dtype, shape |-> <<Len(fs)>> \o fs[1].shape,
   data |-> ConcatData(fs)]

\* Conversion of one element to uint8 on assignment into a uint8 array:
\* integers wrap modulo 256.
ToU8(v) == v % U8

\* A string array whose text is not a number cannot be assigned into a
\* uint8 array (ValueError) as soon as one element is converted.
CastRaises(fr, n) == fr.dtype = "str" /\ n > 0

\* One frame of apply_resize: nr = np.zeros((new_rows, new_cols), uint8);
\* nr[:min_r, :min_c] = fr[:min_r, :min_c].
ResizeFrame(fr, new_rows, new_cols) ==
  LET h == fr.shape[1]
      w == fr.shape[2]
      min_r == Min(h, new_rows)
      min_c == Min(w, new_cols)
  IN  [dtype |-> "uint8", shape |-> <<new_rows, new_cols>>,
       data |-> [k \in 1..(new_rows * new_cols) |->
                  LET row == (k - 1) \div new_cols
                      col == (k - 1) % new_cols
                  IN  IF row < min_r /\ col < min_c
                      THEN ToU8(GetItem(fr, row, col))
                      ELSE 0]]

\* The loop of apply_resize raises when some frame cannot be converted.
ResizeRaises(fs, new_rows, new_cols) ==
  \E i \in 1..Len(fs) :
     CastRaises(fs[i], Min(fs[i].shape[1], new_rows) * Min(fs[i].shape[2], new_cols))

ResizeAll(fs, new_rows, new_cols) ==
  [i \in 1..Len(fs) |-> ResizeFrame(fs[i], new_rows, new_cols)]

\* redraw_current_frame calls update_cell_display(r, c) for every cell of
\* the rows x cols table; each reads self.frames[self.current_index][r, c],
\* an IndexError when the list has no such frame or the frame is smaller.
RedrawRaises(fs, idx, r, c) ==
  /\ r * c > 0
  /\ \/ idx >= Len(fs)
     \/ fs[idx + 1].shape[1] < r
     \/ fs[idx + 1].shape[2] < c

\* list.insert(i, x): an index past the end appends.
Insert(s, i, x) ==
  LET j == Min(i, Len(s))
  IN  SubSeq(s, 1, j) \o <<x>> \o SubSeq(s, j + 1, Len(s))

\* list.pop(i) for 0 <= i < len(s).
Pop(s, i) == SubSeq(s, 1, i) \o SubSeq(s, i + 2, Len(s))

\* ------------------------------------------------------------- state
VARIABLES
  rows, cols,        \* self.rows, self.cols
  frames,            \* self.frames: the list of arrays
  current_index,     \* self.current_index
  playing,           \* self.playing
  timer_active,      \* self.timer.isActive()
  is_dragging,       \* self.is_dragging
  mouse_pressed,     \* self.mouse_pressed
  start_pos,         \* self.start_pos: <<>> for None, else <<row, col>>
  mouse_tracking,    \* self.table.hasMouseTracking()
  thumb_count,       \* self.thumb_list.count()
  button_down,       \* environment: a mouse button is held over the table
  disk,              \* environment: the .npy file written by the last export
  alive,             \* FALSE once an exception has escaped a slot
  last               \* the handler that ran last and how it ended

model == <<rows, cols, frames, current_index>>
drag == <<is_dragging, mouse_pressed, start_pos, mouse_tracking>>
play == <<playing, timer_active>>
vars == <<rows, cols, frames, current_index, playing, timer_active,
          is_dragging, mouse_pressed, start_pos, mouse_tracking,
          thumb_count, button_down, disk, alive, last>>

NoFile == [dtype |-> "none", shape |-> <<>>, data |-> <<>>]
None == <<>>

\* What the handler that ran last was, how it ended, for load_frames the
\* array np.load was given, for a cell event the cell of the signal and for
\* resize_grid_dialog the shape the dialogs returned.
Done(op, out) ==
  last' = [op |-> op, out |-> out, file |-> NoFile, pos |-> None]
DoneLoad(out, f) ==
  last' = [op |-> "load", out |-> out, file |-> f, pos |-> None]
DoneCell(op, out, pos) ==
  last' = [op |-> op, out |-> out, file |-> NoFile, pos |-> pos]

\* An exception leaves the slot before the handler has assigned anything:
\* the process is aborted with the values the handler started with.
Abort(op) ==
  /\ alive' = FALSE
  /\ Done(op, "abort")
  /\ UNCHANGED <<model, play, drag, thumb_count, button_down, disk>>

\* An exception leaves the slot after the handler has assigned fs, idx, r, c
\* and rebuilt tc thumbnails: the process is aborted with these values.
AbortAt(op, fs, idx, r, c, tc) ==
  /\ alive' = FALSE
  /\ Done(op, "abort")
  /\ frames' = fs
  /\ current_index' = idx
  /\ rows' = r
  /\ cols' = c
  /\ thumb_count' = tc
  /\ UNCHANGED <<play, drag, button_down, disk>>

\* __init__
Init ==
  /\ rows = InitRows
  /\ cols = InitCols
  /\ frames = <<np_zeros(InitRows, InitCols)>>
  /\ current_index = 0
  /\ playing = FALSE
  /\ timer_active = FALSE
  /\ is_dragging = FALSE
  /\ mouse_pressed = FALSE
  /\ start_pos = None
  /\ mouse_tracking = FALSE
  /\ thumb_count = 1
  /\ button_down = FALSE
  /\ disk = NoFile
  /\ alive = TRUE
  /\ last = [op |-> "init", out |-> "ok", file |-> NoFile, pos |-> None]

\* The process is running and no exported file is waiting: the model follows
\* an export either by the import of the file just written or by setting
\* that file aside, before any other event.
Ready == alive /\ disk = NoFile

\* ------------------------------------------------------ cell editing
\* frame[row, col] ^= 1 on a uint8 element.
Xor1(v) == IF v % 2 = 0 THEN v + 1 ELSE v - 1

\* self.current_frame() raises IndexError without such a frame, the element
\* access raises outside the frame's shape, and ^ is not defined on text.
CellRaises(fs, idx, row, col) ==
  \/ idx >= Len(fs)
  \/ ~InShape(fs[idx + 1], row, col)
  \/ fs[idx + 1].dtype = "str"

\* toggle_cell: the frames it leaves (it returns at once while playing).
toggle_cell(fs, idx, row, col) ==
  IF playing
  THEN fs
  ELSE [fs EXCEPT ![idx + 1] = SetItem(@, row, col, Xor1(GetItem(@, row, col)))]

\* set_cell without its playing guard.
set_cell_unguarded(fs, idx, row, col, value) ==
  IF GetItem(fs[idx + 1], row, col) # value
  THEN [fs EXCEPT ![idx + 1] = SetItem(@, row, col, value)]
  ELSE fs

\* set_cell: the frames it leaves (it returns at once while playing).
set_cell(fs, idx, row, col, value) ==
  IF playing
  THEN fs
  ELSE IF GetItem(fs[idx + 1], row, col) # value
       THEN [fs EXCEPT ![idx + 1] = SetItem(@, row, col, value)]
       ELSE fs

\* set_cell raises where frame[row, col] does, unless it has returned.
set_cell_raises(fs, idx, row, col) ==
  /\ ~playing
  /\ \/ idx >= Len(fs)
     \/ ~InShape(fs[idx + 1], row, col)

\* The cells of the table (setRowCount(rows), setColumnCount(cols)) that the
\* model lets the pointer reach: the first MaxPress cells of the diagonal.
Cells == {<<i, i>> : i \in 0..(Min(Min(rows, cols), MaxPress) - 1)}

\* cellPressed(row, col) -> on_cell_pressed
OnCellPressed ==
  /\ Ready /\ ~button_down
  /\ \E pos \in Cells :
       LET row == pos[1]
           col == pos[2]
       IN  IF playing
           THEN /\ button_down' = TRUE
                /\ DoneCell("press", "playing", pos)
                /\ UNCHANGED <<model, play, drag, thumb_count, disk, alive>>
           ELSE IF CellRaises(frames, current_index, row, col)
           THEN /\ alive' = FALSE
                /\ mouse_pressed' = TRUE
                /\ start_pos' = <<row, col>>
                /\ is_dragging' = FALSE
                /\ button_down' = TRUE
                /\ DoneCell("press", "abort", pos)
                /\ UNCHANGED <<model, play, mouse_tracking, thumb_count, disk>>
           ELSE /\ mouse_pressed' = TRUE
                /\ start_pos' = <<row, col>>
                /\ is_dragging' = FALSE
                /\ frames' = toggle_cell(frames, current_index, row, col)
                /\ mouse_tracking' = TRUE
                /\ button_down' = TRUE
                /\ DoneCell("press", "toggled", pos)
                /\ UNCHANGED <<rows, cols, current_index, play, thumb_count,
                               disk, alive>>

\* on_cell_entered entering drag mode on every cell, the start cell too.
OnCellEntered_any_cell ==
  /\ Ready /\ (button_down \/ mouse_tracking)
  /\ \E pos \in Cells :
       LET row == pos[1]
           col == pos[2]
           dragging == TRUE
       IN  IF playing \/ ~mouse_pressed
           THEN /\ DoneCell("enter", "ignored", pos)
                /\ UNCHANGED <<model, play, drag, thumb_count, button_down,
                               disk, alive>>
           ELSE IF dragging /\ CellRaises(frames, current_index, row, col)
           THEN /\ alive' = FALSE
                /\ is_dragging' = TRUE
                /\ DoneCell("enter", "abort", pos)
                /\ UNCHANGED <<model, play, mouse_pressed, start_pos,
                               mouse_tracking, thumb_count, button_down, disk>>
           ELSE /\ is_dragging' = dragging
                /\ frames' = IF dragging
                             THEN toggle_cell(frames, current_index, row, col)
                             ELSE frames
                /\ DoneCell("enter", IF dragging THEN "toggled" ELSE "start", pos)
                /\ UNCHANGED <<rows, cols, current_index, play, mouse_pressed,
                               start_pos, mouse_tracking, thumb_count,
                               button_down, disk, alive>>

\* cellEntered(row, col) -> on_cell_entered.  Qt emits cellEntered only
\* while a button is held or mouse tracking is on.
OnCellEntered ==
  /\ Ready /\ (button_down \/ mouse_tracking)
  /\ \E pos \in Cells :
       LET row == pos[1]
           col == pos[2]
           dragging == IF start_pos # None /\ pos # start_pos
                       THEN TRUE ELSE is_dragging
       IN  IF playing \/ ~mouse_pressed
           THEN /\ DoneCell("enter", "ignored", pos)
                /\ UNCHANGED <<model, play, drag, thumb_count, button_down,
                               disk, alive>>
           ELSE IF dragging /\ CellRaises(frames, current_index, row, col)
           THEN /\ alive' = FALSE
                /\ is_dragging' = TRUE
                /\ DoneCell("enter", "abort", pos)
                /\ UNCHANGED <<model, play, mouse_pressed, start_pos,
                               mouse_tracking, thumb_count, button_down, disk>>
           ELSE /\ is_dragging' = dragging
                /\ frames' = IF dragging
                             THEN toggle_cell(frames, current_index, row, col)
                             ELSE frames
                /\ DoneCell("enter", IF dragging THEN "toggled" ELSE "start", pos)
                /\ UNCHANGED <<rows, cols, current_index, play, mouse_pressed,
                               start_pos, mouse_tracking, thumb_count,
                               button_down, disk, alive>>

\* table_mouse_release_event without its self.is_dragging = False.
TableMouseRelease_keeps_dragging ==
  /\ Ready /\ button_down
  /\ button_down' = FALSE
  /\ IF mouse_pressed
     THEN /\ mouse_pressed' = FALSE
          /\ start_pos' = None
          /\ mouse_tracking' = FALSE
          /\ UNCHANGED is_dragging
     ELSE UNCHANGED drag
  /\ Done("release", "ok")
  /\ UNCHANGED <<model, play, thumb_count, disk, alive>>

\* mouseReleaseEvent of the table -> table_mouse_release_event
TableMouseRelease ==
  /\ Ready /\ button_down
  /\ button_down' = FALSE
  /\ IF mouse_pressed
     THEN /\ mouse_pressed' = FALSE
          /\ is_dragging' = FALSE
          /\ start_pos' = None
          /\ mouse_tracking' = FALSE
     ELSE UNCHANGED drag
  /\ Done("release", "ok")
  /\ UNCHANGED <<model, play, thumb_count, disk, alive>>

\* set_cell(row, col, value): a method no signal is connected to; called
\* here, on a numeric frame, as the cell-editing operation it implements.
SetCell ==
  /\ Ready
  /\ \E pos \in Cells, value \in {0, 1} :
       IF set_cell_raises(frames, current_index, pos[1], pos[2])
       THEN Abort("set_cell")
       ELSE /\ IF playing THEN TRUE
                          ELSE frames[current_index + 1].dtype # "str"
            /\ frames' = set_cell(frames, current_index, pos[1], pos[2], value)
            /\ DoneCell("set_cell", IF playing THEN "playing" ELSE "set", pos)
            /\ UNCHANGED <<rows, cols, current_index, play, drag, thumb_count,
                           button_down, disk, alive>>

\* --------------------------------------------------- frame operations
\* refresh_thumbs() rebuilds the list from self.frames (it cannot raise:
\* frame_to_pixmap reads only cells inside arr.shape).
\* The tail shared by add_frame, copy_frame and delete_frame:
\* refresh_thumbs(); update_status(); redraw_current_frame().
FrameOpTail(op, fs, idx) ==
  IF RedrawRaises(fs, idx, rows, cols)
  THEN AbortAt(op, fs, idx, rows, cols, Len(fs))
  ELSE /\ frames' = fs
       /\ current_index' = idx
       /\ thumb_count' = Len(fs)
       /\ Done(op, "ok")
       /\ UNCHANGED <<rows, cols, play, drag, button_down, disk, alive>>

\* itemClicked -> on_thumb_clicked: idx is the row of a thumbnail that exists.
OnThumbClicked ==
  /\ Ready
  /\ \E idx \in 0..(thumb_count - 1) :
       IF RedrawRaises(frames, idx, rows, cols)
       THEN AbortAt("thumb", frames, idx, rows, cols, thumb_count)
       ELSE /\ current_index' = idx
            /\ Done("thumb", "ok")
            /\ UNCHANGED <<rows, cols, frames, play, drag, thumb_count,
                           button_down, disk, alive>>

\* add_frame
AddFrame ==
  /\ Ready
  /\ Len(frames) < MaxFrames
  /\ FrameOpTail("add",
                 Insert(frames, current_index + 1, np_zeros(rows, cols)),
                 current_index + 1)

\* copy_frame
CopyFrame ==
  /\ Ready
  /\ Len(frames) < MaxFrames
  /\ IF current_index >= Len(frames)
     THEN Abort("copy")
     ELSE FrameOpTail("copy",
                      Insert(frames, current_index + 1, frames[current_index + 1]),
                      current_index + 1)

\* delete_frame
DeleteFrame ==
  /\ Ready
  /\ IF Len(frames) = 1
     THEN /\ Done("delete", "refused")
          /\ UNCHANGED <<model, play, drag, thumb_count, button_down, disk,
                         alive>>
     ELSE IF current_index >= Len(frames)
     THEN Abort("delete")
     ELSE FrameOpTail("delete", Pop(frames, current_index),
                      Max(0, current_index - 1))

\* next_frame stepping by two frames instead of one.
NextFrame_skips ==
  /\ Ready /\ timer_active
  /\ IF Len(frames) = 0
     THEN Abort("tick")
     ELSE LET idx == (current_index + 2) % Len(frames)
          IN  IF RedrawRaises(frames, idx, rows, cols)
              THEN AbortAt("tick", frames, idx, rows, cols, thumb_count)
              ELSE /\ current_index' = idx
                   /\ Done("tick", "ok")
                   /\ UNCHANGED <<rows, cols, frames, play, drag, thumb_count,
                                  button_down, disk, alive>>

\* timer.timeout -> next_frame
NextFrame ==
  /\ Ready /\ timer_active
  /\ IF Len(frames) = 0
     THEN Abort("tick")
     ELSE LET idx == (current_index + 1) % Len(frames)
          IN  IF RedrawRaises(frames, idx, rows, cols)
              THEN AbortAt("tick", frames, idx, rows, cols, thumb_count)
              ELSE /\ current_index' = idx
                   /\ Done("tick", "ok")
                   /\ UNCHANGED <<rows, cols, frames, play, drag, thumb_count,
                                  button_down, disk, alive>>

\* ----------------------------------------------------------- playback
\* start_play
StartPlay ==
  /\ Ready
  /\ IF ~playing
     THEN /\ playing' = TRUE
          /\ timer_active' = TRUE
          /\ Done("play", "started")
     ELSE /\ UNCHANGED play
          /\ Done("play", "already")
  /\ UNCHANGED <<model, drag, thumb_count, button_down, disk, alive>>

\* stop_play without its self.timer.stop().
StopPlay_timer_runs ==
  /\ Ready
  /\ playing' = FALSE
  /\ Done("stop", "ok")
  /\ UNCHANGED <<model, timer_active, drag, thumb_count, button_down, disk,
                 alive>>

\* stop_play
StopPlay ==
  /\ Ready
  /\ playing' = FALSE
  /\ timer_active' = FALSE
  /\ Done("stop", "ok")
  /\ UNCHANGED <<model, drag, thumb_count, button_down, disk, alive>>

\* ------------------------------------------------------------- resize
\* The values QInputDialog.getInt can return, within the model's bounds.
RowChoices == {v \in DialogMin..DialogMax : v <= MaxRows}
ColChoices == {v \in DialogMin..DialogMax : v <= MaxCols}

\* resize_grid_dialog with both dialogs accepted (a cancelled dialog returns
\* at once); apply_resize is called outside any try.
ResizeGridDialog ==
  /\ Ready
  /\ \E new_rows \in RowChoices, new_cols \in ColChoices :
       IF <<new_rows, new_cols>> = <<rows, cols>>
       THEN /\ DoneCell("resize", "same", <<new_rows, new_cols>>)
            /\ UNCHANGED <<model, play, drag, thumb_count, button_down, disk,
                           alive>>
       ELSE IF ResizeRaises(frames, new_rows, new_cols)
       THEN /\ alive' = FALSE
            /\ DoneCell("resize", "abort", <<new_rows, new_cols>>)
            /\ UNCHANGED <<model, play, drag, thumb_count, button_down, disk>>
       ELSE LET fs == ResizeAll(frames, new_rows, new_cols)
            IN  IF RedrawRaises(fs, current_index, new_rows, new_cols)
                THEN /\ alive' = FALSE
                     /\ frames' = fs
                     /\ rows' = new_rows
                     /\ cols' = new_cols
                     /\ DoneCell("resize", "abort", <<new_rows, new_cols>>)
                     /\ UNCHANGED <<current_index, play, drag, thumb_count,
                                    button_down, disk>>
                ELSE /\ frames' = fs
                     /\ rows' = new_rows
                     /\ cols' = new_cols
                     /\ thumb_count' = Len(fs)
                     /\ DoneCell("resize", "ok", <<new_rows, new_cols>>)
                     /\ UNCHANGED <<current_index, play, drag, button_down,
                                    disk, alive>>

\* ---------------------------------------------------- export / import
\* export_all with a path chosen (a cancelled file dialog returns at once,
\* here and in export_frame and load_frames).  QFileDialog is modal and is not operated while the pointer
\* holds a button down over the table.
ExportAll ==
  /\ Ready /\ ~button_down
  /\ IF StackRaises(frames)
     THEN Abort("export_all")
     ELSE /\ disk' = np_stack(frames)
          /\ Done("export_all", "saved")
          /\ UNCHANGED <<model, play, drag, thumb_count, button_down, alive>>

\* export_frame with a path chosen.
ExportFrame ==
  /\ Ready /\ ~button_down
  /\ IF current_index >= Len(frames)
     THEN Abort("export_frame")
     ELSE /\ disk' = frames[current_index + 1]
          /\ Done("export_frame", "saved")
          /\ UNCHANGED <<model, play, drag, thumb_count, button_down, alive>>

\* The exported file is set aside without being imported.
SetAside ==
  /\ alive /\ disk # NoFile
  /\ disk' = NoFile
  /\ Done("set_aside", "ok")
  /\ UNCHANGED <<model, play, drag, thumb_count, button_down, alive>>

\* Contents of the files offered to np.load besides the exported one.
\* "pat" holds only 0 and 1; "mix" starts with 257 and 2.
Fill(kind, k) ==
  IF kind = "mix" /\ k = 1 THEN U8 + 1
  ELSE IF kind = "mix" /\ k = 2 THEN 2
  ELSE IF k % 3 = 1 THEN 1 ELSE 0

MkFile(dtype, shape, kind) ==
  [dtype |-> dtype, shape |-> shape,
   data |-> [k \in 1..Prod(shape) |-> Fill(kind, k)]]

\* Shapes of rank 2 and 3 with each dimension empty or as large as the
\* bounds allow, and one shape of each of the ranks 0, 1 and 4.
FileShapes ==
  {<<r, c>> : r \in {0, MaxRows}, c \in {0, MaxCols}}
  \cup {<<n, r, c>> : n \in {0, 1, MaxFrames}, r \in {0, MaxRows}, c \in {0, MaxCols}}

OtherRanks == {<<>>, <<MaxCols>>, <<1, 1, MaxRows, MaxCols>>}

\* int64 arrays, arrays of text ("str") and a file np.load refuses
\* ("object": pickled data with allow_pickle=False).
ExternalFiles ==
  {MkFile("int64", sh, kind) : sh \in FileShapes, kind \in {"pat", "mix"}}
  \cup {MkFile("str", sh, "pat") : sh \in FileShapes}
  \cup {MkFile("int64", sh, "mix") : sh \in OtherRanks}
  \cup {MkFile("object", <<MaxCols>>, "pat")}

\* The comprehension copying data[0] for every i.
Slices_first(data) == [i \in 1..(data.shape[1]) |-> Slice0(data, 0)]

\* The frames of line 389: [data[i].copy() for i in range(data.shape[0])].
Slices(data) == [i \in 1..(data.shape[1]) |-> Slice0(data, i - 1)]

\* The rank test letting every rank of 3 or more through.
RankRejected_below3(data) == ndim(data) < 3

\* if data.ndim != 3: raise ValueError("Expected 2-D or 3-D array")
RankRejected(data) == ndim(data) # 3

FormatError == "Error: Expected 2-D or 3-D array"

\* load_frames once a path is chosen: the try block and its handler.
load_frames(f) ==
  LET data == IF ndim(f) = 2 THEN newaxis(f) ELSE f
      keep == UNCHANGED <<play, drag, button_down, alive>>
  IN  IF f.dtype = "object"
      THEN /\ DoneLoad("Error: np.load", f)
           /\ UNCHANGED <<model, thumb_count>>
           /\ keep
      ELSE IF RankRejected(data)
      THEN /\ DoneLoad(FormatError, f)
           /\ UNCHANGED <<model, thumb_count>>
           /\ keep
      ELSE LET new_rows == data.shape[2]
               new_cols == data.shape[3]
               loaded == Slices(data)
           IN  IF ResizeRaises(loaded, new_rows, new_cols)
               THEN /\ frames' = loaded
                    /\ current_index' = 0
                    /\ DoneLoad("Error: cast", f)
                    /\ UNCHANGED <<rows, cols, thumb_count>>
                    /\ keep
               ELSE /\ frames' = ResizeAll(loaded, new_rows, new_cols)
                    /\ current_index' = 0
                    /\ rows' = new_rows
                    /\ cols' = new_cols
                    /\ keep
                    /\ IF RedrawRaises(frames', 0, new_rows, new_cols)
                       THEN /\ DoneLoad("Error: index", f)
                            /\ UNCHANGED thumb_count
                       ELSE /\ DoneLoad("Loaded", f)
                            /\ thumb_count' = Len(frames')

\* load_frames on a file that was not written by this session.
LoadExternal ==
  /\ Ready /\ ~button_down
  /\ \E f \in ExternalFiles :
       /\ load_frames(f)
       /\ UNCHANGED disk

\* load_frames on the file the export has just written.
LoadExported ==
  /\ alive /\ disk # NoFile
  /\ load_frames(disk)
  /\ disk' = NoFile

\* load_frames on the external files that hold no element or hold text.
DegenerateFiles ==
  {f \in ExternalFiles : Prod(f.shape) = 0 \/ f.dtype = "str"}

LoadDegenerate ==
  /\ Ready /\ ~button_down
  /\ \E f \in DegenerateFiles :
       /\ load_frames(f)
       /\ UNCHANGED disk

\* The editor without its file handlers: every slot connected in __init__
\* except export_all, export_frame and load_frames.
Next ==
  \/ OnCellPressed
  \/ OnCellEntered
  \/ TableMouseRelease
  \/ SetCell
  \/ OnThumbClicked
  \/ AddFrame
  \/ CopyFrame
  \/ DeleteFrame
  \/ NextFrame
  \/ StartPlay
  \/ StopPlay
  \/ ResizeGridDialog

Spec == Init /\ [][Next]_vars

\* The file handlers, with the handlers that bring the editor into the
\* states an export or import starts from: clicks (a press and its release),
\* frame selection and deletion, resize, playback.
FileNext ==
  \/ OnCellPressed
  \/ TableMouseRelease
  \/ OnThumbClicked
  \/ DeleteFrame
  \/ NextFrame
  \/ StartPlay
  \/ StopPlay
  \/ ResizeGridDialog
  \/ ExportAll
  \/ ExportFrame
  \/ SetAside
  \/ LoadExternal
  \/ LoadExported

SpecFile == Init /\ [][FileNext]_vars

\* The editor of Next together with the imports that leave it without a
\* frame, with an empty grid or with frames of text.
LoadNext ==
  \/ OnCellPressed
  \/ OnCellEntered
  \/ TableMouseRelease
  \/ SetCell
  \/ OnThumbClicked
  \/ AddFrame
  \/ CopyFrame
  \/ DeleteFrame
  \/ NextFrame
  \/ StartPlay
  \/ StopPlay
  \/ ResizeGridDialog
  \/ LoadDegenerate

SpecLoad == Init /\ [][LoadNext]_vars

\* SpecLoad with the timer's scheduling: the QTimer started by start_play
\* (interval 200 ms) keeps emitting timeout while it is active and the
\* event loop runs, so a tick that stays possible is eventually taken.
SpecLoadFair == Init /\ [][LoadNext]_vars /\ WF_vars(NextFrame)

\* ============================================================== claims
IsError(out) ==
  out \in {"Error: np.load", FormatError, "Error: cast", "Error: index"}

\* Shape (n, r, c) under which load_frames reads an array of rank 2 or 3.
FileN(f) == IF ndim(f) = 2 THEN 1 ELSE f.shape[1]
FileR(f) == IF ndim(f) = 2 THEN f.shape[1] ELSE f.shape[2]
FileC(f) == IF ndim(f) = 2 THEN f.shape[2] ELSE f.shape[3]

\* Element (i, row, col) of the file, read from its buffer (0-based).
FileAt(f, i, row, col) ==
  f.data[i * FileR(f) * FileC(f) + row * FileC(f) + col + 1]

\* C1: in every reachable state the Animation holds at least one Frame.
C1_AtLeastOneFrame == Len(frames) >= 1

\* C2: in every reachable state 0 <= current_index <= length - 1.
C2_CursorInRange ==
  /\ 0 <= current_index
  /\ current_index <= Len(frames) - 1

CellEditOps == {"press", "enter", "set_cell"}
StructuralOps == {"add", "copy", "delete", "resize"}

\* C3 as stated: a cell-editing or structural operation called while Playing
\* leaves the frame contents, the frame count and the grid shape unchanged.
C3_PlayingDisablesAll ==
  [][(playing /\ last'.op \in CellEditOps \cup StructuralOps)
       => UNCHANGED <<frames, rows, cols>>]_vars

\* C3 amended: a cell-editing operation (press, cell-enter, set_cell) called
\* while Playing changes neither the frames, the grid shape, the cursor nor
\* the drag state; the structural operations are not covered.
C3_PlayingDisablesCellEdits ==
  [][(playing /\ last'.op \in CellEditOps)
       => UNCHANGED <<frames, rows, cols, current_index, drag>>]_vars

\* A cell-editing call made while Playing on an animation with a cell set.
C3_Witness ==
  /\ playing
  /\ last.op \in CellEditOps
  /\ last.out = "playing"
  /\ \E i \in 1..Len(frames) : \E k \in 1..Len(frames[i].data) :
        frames[i].data[k] = 1

\* C4: an import that ends by reporting an error leaves the frames, the
\* cursor and the grid shape as they were.
C4_ImportAllOrNothing ==
  [][(last'.op = "load" /\ IsError(last'.out))
       => UNCHANGED <<frames, current_index, rows, cols>>]_vars

\* C5: an array of rank other than 2 or 3 is refused with the format error
\* and frames, cursor and grid shape stay; an array of rank 2 or 3 never
\* gets the format error.
C5_RankCheck ==
  [][(last'.op = "load" /\ last'.file.dtype # "object") =>
       IF ndim(last'.file) \in {2, 3}
       THEN last'.out # FormatError
       ELSE /\ last'.out = FormatError
            /\ UNCHANGED <<frames, current_index, rows, cols>>]_vars

\* A refused import on an animation of several frames with the cursor moved.
C5_Witness ==
  /\ last.op = "load" /\ last.out = FormatError
  /\ ndim(last.file) = 4
  /\ Len(frames) > 1
  /\ current_index > 0

C7_RoundTrip ==
  [][/\ last'.op = "export_all" =>
          /\ disk' # NoFile
          /\ disk'.shape = <<Len(frames), rows, cols>>
          /\ \A i \in 0..(Len(frames) - 1) :
                \A row \in 0..(rows - 1), col \in 0..(cols - 1) :
                   disk'.data[i * rows * cols + row * cols + col + 1]
                     = frames[i + 1].data[row * cols + col + 1]
     /\ (last.op = "export_all" /\ last'.op = "load") =>
          /\ last'.out = "Loaded"
          /\ Len(frames') = Len(frames)
          /\ \A i \in 1..Len(frames) :
                /\ frames'[i].shape = frames[i].shape
                /\ frames'[i].data = frames[i].data
          /\ rows' = rows /\ cols' = cols
          /\ current_index' = 0]_vars

\* C8: every cell of every numeric frame is 0 or 1.
C8_CellsBinary ==
  \A i \in 1..Len(frames) :
     frames[i].dtype = "uint8" =>
        \A k \in 1..Len(frames[i].data) : frames[i].data[k] \in {0, 1}

\* C9: the grid shape stays within [1, 64] x [1, 64].
C9_ShapeInRange ==
  /\ DialogMin <= rows /\ rows <= DialogMax
  /\ DialogMin <= cols /\ cols <= DialogMax

\* C10: every frame has the dimensions of the shared grid shape.
C10_FramesShareShape ==
  \A i \in 1..Len(frames) : frames[i].shape = <<rows, cols>>

\* C11: delete_frame on exactly one frame is refused and changes neither the
\* frames nor the cursor nor the grid shape; on more than one frame it
\* removes exactly the frame at the cursor, keeps the other frames in order
\* and content, and sets the cursor to max(0, old cursor - 1).
C11_DeleteFrame ==
  [][last'.op = "delete" =>
       /\ Len(frames) = 1 =>
            UNCHANGED <<frames, current_index, rows, cols>>
       /\ Len(frames) > 1 =>
            /\ Len(frames') = Len(frames) - 1
            /\ \A k \in 1..Len(frames') :
                  frames'[k] = IF k <= current_index THEN frames[k]
                                                    ELSE frames[k + 1]
            /\ current_index' = Max(0, current_index - 1)
            /\ UNCHANGED <<rows, cols>>]_vars

\* C12: copy_frame inserts, immediately after the cursor, a frame equal in
\* content to the current frame, leaves the other frames as they were and
\* moves the cursor to the duplicate; a toggle changes no frame other than
\* the one at the cursor, so original and duplicate are independent.
C12_CopyFrame ==
  [][/\ last'.op = "copy" =>
          /\ Len(frames') = Len(frames) + 1
          /\ current_index' = current_index + 1
          /\ \A k \in 1..Len(frames') :
                frames'[k] = IF k <= current_index + 1 THEN frames[k]
                                                        ELSE frames[k - 1]
     /\ last'.out = "toggled" =>
          /\ Len(frames') = Len(frames)
          /\ \A k \in 1..Len(frames) :
                k # current_index + 1 => frames'[k] = frames[k]]_vars

\* C13: add_frame inserts one all-zero frame of the current grid shape at
\* position old cursor + 1, sets the cursor to old cursor + 1, makes the
\* list one longer and leaves the frames it had in content and order.
C13_AddFrame ==
  [][last'.op = "add" =>
       /\ Len(frames') = Len(frames) + 1
       /\ current_index' = current_index + 1
       /\ current_index + 2 <= Len(frames')
       /\ frames'[current_index + 2] = np_zeros(rows, cols)
       /\ \A k \in 1..Len(frames) :
             frames[k] = IF k <= current_index + 1 THEN frames'[k]
                                                   ELSE frames'[k + 1]
       /\ UNCHANGED <<rows, cols>>]_vars

\* C14: resize to (newRows, newCols) replaces every frame by a newRows x
\* newCols grid whose cell (i, j) is the old cell where i < min(oldRows,
\* newRows) and j < min(oldCols, newCols) and 0 elsewhere, all frames in the
\* one step; it sets the grid shape and leaves frame count and cursor.
C14_Resize ==
  [][last'.op = "resize" =>
       LET newRows == last'.pos[1]
           newCols == last'.pos[2]
       IN  /\ rows' = newRows
           /\ cols' = newCols
           /\ Len(frames') = Len(frames)
           /\ current_index' = current_index
           /\ \A k \in 1..Len(frames) :
                 /\ frames'[k].shape = <<newRows, newCols>>
                 /\ \A i \in 0..(newRows - 1), j \in 0..(newCols - 1) :
                       IF i < Min(rows, newRows) /\ j < Min(cols, newCols)
                       THEN /\ InShape(frames[k], i, j)
                            /\ GetItem(frames'[k], i, j)
                                 = GetItem(frames[k], i, j)
                       ELSE GetItem(frames'[k], i, j) = 0]_vars

\* C15: toggle_cell(row, col) on a valid cell while stopped succeeds, and
\* applying it a second time with nothing in between gives back the frames
\* as they were before the first toggle; neither toggle touches the frame
\* count, the cursor or the grid shape.
C15_ToggleTwice ==
  [][(last'.op \in {"press", "enter"} /\ last'.out \in {"toggled", "abort"}) =>
       /\ last'.out = "toggled"
       /\ frames' # frames
       /\ toggle_cell(frames', current_index', last'.pos[1], last'.pos[2])
            = frames
       /\ UNCHANGED <<rows, cols, current_index>>]_vars

\* C16: playback starts stopped; start_play when stopped sets playing and
\* starts the timer, start_play when playing changes nothing; stop_play
\* always ends stopped with the timer stopped; no other handler changes the
\* playing flag; the timer runs exactly when playing, so that no tick moves
\* the cursor while stopped.
C16_Playback ==
  /\ ~playing /\ ~timer_active
  /\ [][/\ timer_active' = playing'
        /\ (last'.op = "play" /\ ~playing) => (playing' /\ timer_active')
        /\ (last'.op = "play" /\ playing) =>
              UNCHANGED <<model, play, drag, thumb_count, button_down, disk,
                          alive>>
        /\ last'.op = "stop" => (~playing' /\ ~timer_active')
        /\ playing' # playing => last'.op \in {"play", "stop"}
        /\ last'.op = "tick" => playing
        /\ (~playing /\ current_index' # current_index) =>
              last'.op # "tick"]_vars

\* start_play was called while playing: the flag and the timer are still on.
C16_Witness ==
  /\ last.op = "play" /\ last.out = "already"
  /\ playing /\ timer_active
  /\ current_index > 0

\* C17: every timer tick is defined, whatever the reachable animation: it
\* sets the cursor to (cursor + 1) mod length, wrapping from the last frame
\* to frame 0, and changes no frame, nor the frame count, nor the grid shape.
C17_AdvanceFrame ==
  [][last'.op = "tick" =>
       /\ Len(frames) > 0
       /\ current_index' = (current_index + 1) % Len(frames)
       /\ UNCHANGED <<frames, rows, cols>>]_vars

C19_ReleaseResets ==
  /\ ~mouse_pressed => (~is_dragging /\ start_pos = None)
  /\ [][/\ last'.op = "release" =>
              (~mouse_pressed' /\ ~is_dragging' /\ start_pos' = None)
        /\ ~mouse_pressed' => (~is_dragging' /\ start_pos' = None)
        /\ (last'.op = "enter" /\ ~mouse_pressed) =>
              UNCHANGED <<model, drag>>]_vars

\* The button was released after a drag over both cells the pointer
\* reaches: the three drag fields are reset.
C19_Witness ==
  /\ last.op = "release"
  /\ ~mouse_pressed /\ ~is_dragging /\ start_pos = None
  /\ current_index < Len(frames)
  /\ \A i \in 0..(MaxPress - 1) :
        /\ InShape(frames[current_index + 1], i, i)
        /\ GetItem(frames[current_index + 1], i, i) = 1

\* The handlers that move the cursor or change the list of frames, other
\* than the timer tick.
CursorOps == {"add", "copy", "delete", "thumb", "resize", "load"}

\* C20: once playing, if the timer keeps firing (the process runs and stop
\* is not called) and add, copy, delete, select, resize and load happen only
\* finitely often, every frame index is the cursor again and again.
C20_EveryFrameShown ==
  \A i \in 0..(MaxFrames - 1) :
     <>[](playing /\ alive /\ last.op \notin CursorOps)
       => []<>(i < Len(frames) => current_index = i)

\* A tick has wrapped the cursor from the last of several frames to frame 0.
C20_Witness ==
  /\ playing /\ alive
  /\ last.op = "tick"
  /\ Len(frames) = MaxFrames
  /\ current_index = 0

====
